---- MODULE Spec2Model ----
(***************************************************************************)
(* A model of pynoon (src/pynoon/__init__.py): the entity graph with its   *)
(* registry and property setters, the token guard Noon.authenticate, the   *)
(* event-stream supervisor (connect / open / close / message), the change  *)
(* notifications, the commands and discoverDevices.                        *)
(*                                                                         *)
(* Every handler is one atomic action.  Three history variables record     *)
(* the last handler call: which it was, on what, and how it ended          *)
(* (lastCall), the subscriber handler invocations it made (events) and     *)
(* the HTTP requests it sent (requests).                                   *)
(***************************************************************************)
EXTENDS Integers, Sequences, FiniteSets, TLC

VARIABLES now, noon, heap, listeners, lastCall, events, requests

vars == <<now, noon, heap, listeners, lastCall, events, requests>>

(***************************************************************************)
(* Bounds of the model.                                                    *)
(***************************************************************************)
\* Entity objects ever constructed.
MaxObjs == 3
\* Subscriptions (subscribe calls) over all entities.
MaxSubs == 2
\* Scenes, and lines, listed in one space of a discovery payload.
MaxChildren == 1
\* The clock stops 10 * MaxTicks seconds after the Noon object was created.
MaxTicks == 6
\* Listener threads ever started.
MaxListeners == 2

(***************************************************************************)
(* Python values as they arrive from JSON.  t is the Python type; s holds  *)
(* a str's text, or the "guid" entry of a dict; n holds the number of an   *)
(* int or a bool (True is 1, False is 0).                                  *)
(***************************************************************************)
NoneStr == "None"

PyNone == [t |-> "none", s |-> "", n |-> 0]

PyBool(b) == [t |-> "bool", s |-> "", n |-> IF b THEN 1 ELSE 0]

PyInt(k) == [t |-> "int", s |-> "", n |-> k]

PyStr(x) == [t |-> "str", s |-> x, n |-> 0]

\* The dict {"guid": g}; g = NoneStr is a dict holding no "guid".
PyDict(g) == [t |-> "dict", s |-> g, n |-> 0]

\* Python's ==: bool is a subclass of int, so True == 1 and False == 0.
PyEq(a, b) ==
  IF a.t \in {"bool", "int"} /\ b.t \in {"bool", "int"}
  THEN a.n = b.n
  ELSE a = b

\* Python's !=, as the setters use it.
PyNe(a, b) == ~PyEq(a, b)

(***************************************************************************)
(* The sets the inputs are drawn from.                                     *)
(***************************************************************************)
Guids == {"S1", "S2", "SC1", "SC2", "L1", "D1"}

Handlers == {"h1", "h2"}

\* 0 is "no object" (a dict's .get returning None).
NoObj == 0

SeqsUpTo(S, k) == UNION {[1..m -> S] : m \in 0..k}

(***************************************************************************)
(* Entities.  heap[i] is the i-th entity object ever constructed; an       *)
(* object's id is its index.  A world w is the state a handler works on:   *)
(* the Noon object, the heap, what the call emitted so far, and the        *)
(* exception that ended it ("" while it runs).                             *)
(***************************************************************************)
NoMap == [g \in Guids |-> NoObj]

\* NoonEntity.__init__ with the subclass fields at their constructor values.
BlankEntity(kind, guid, name, space) ==
  [kind |-> kind, guid |-> guid, name |-> name, subscribers |-> <<>>,
   lightsOn |-> PyNone, activeScene |-> PyNone,
   scenes |-> NoMap, devices |-> NoMap, lines |-> NoMap,
   lineState |-> PyNone, dimmingLevel |-> PyNone, parentSpace |-> space]

\* Noon._registerEntity: the flat map is written first, unconditionally; the
\* per-kind map only when it holds no entity for the GUID.
RegisterEntity(n, id, kind, guid) ==
  LET n1 == [n EXCEPT !.allEntities[guid] = id]
  IN CASE kind = "space" ->
            IF n.spaces[guid] # NoObj THEN n1 ELSE [n1 EXCEPT !.spaces[guid] = id]
       [] kind = "device" ->
            IF n.devices[guid] # NoObj THEN n1 ELSE [n1 EXCEPT !.devices[guid] = id]
       [] kind = "line" ->
            IF n.lines[guid] # NoObj THEN n1 ELSE [n1 EXCEPT !.lines[guid] = id]
       [] kind = "scene" ->
            IF n.scenes[guid] # NoObj THEN n1 ELSE [n1 EXCEPT !.scenes[guid] = id]

\* NoonEntity.__init__: the new object is registered as it is constructed.
Construct(w, e) ==
  [w EXCEPT !.heap = Append(@, e),
            !.noon = RegisterEntity(@, Len(w.heap) + 1, e.kind, e.guid)]

\* NoonEntity._dispatch_event: every (handler, context) entry, in order.
DispatchEvent(w, id, event, key, value) ==
  LET subs == w.heap[id].subscribers
  IN [w EXCEPT !.events = @ \o [i \in 1..Len(subs) |->
        [obj |-> id, handler |-> subs[i], event |-> event,
         key |-> key, value |-> value]]]

\* NoonSpace.lightsOn setter with the dispatch outside the valueChanged test.
SetLightsOnAlways(w, id, value) ==
  IF w.exc # "" THEN w
  ELSE DispatchEvent([w EXCEPT !.heap[id].lightsOn = value], id,
                     "LIGHTSON_CHANGED", "lightsOn", value)

\* NoonSpace.lightsOn setter.
SetLightsOn(w, id, value) ==
  IF w.exc # "" THEN w
  ELSE LET valueChanged == PyNe(w.heap[id].lightsOn, value)
           w1 == [w EXCEPT !.heap[id].lightsOn = value]
       IN IF valueChanged
          THEN DispatchEvent(w1, id, "LIGHTSON_CHANGED", "lightsOn", value)
          ELSE w1

\* A scene lookup that finds the space itself under every string key.
ScenesGetAlways(o, actualValue) ==
  IF actualValue.t = "str" THEN Len(o.subscribers) + 1 ELSE NoObj

\* self._scenes.get(actualValue, None): the keys are GUID strings.
ScenesGet(o, actualValue) ==
  IF actualValue.t = "str" /\ actualValue.s \in Guids
  THEN o.scenes[actualValue.s]
  ELSE NoObj

\* NoonSpace.activeScene setter without its sanity check.
SetActiveSceneUnchecked(w, id, value) ==
  IF w.exc # "" THEN w
  ELSE LET actualValue == IF value.t = "dict" /\ value.s # NoneStr
                          THEN PyStr(value.s) ELSE value
           valueChanged == PyNe(w.heap[id].activeScene, actualValue)
           w1 == [w EXCEPT !.heap[id].activeScene = actualValue]
       IN IF valueChanged
          THEN DispatchEvent(w1, id, "SCENE_CHANGED", "sceneId", actualValue)
          ELSE w1

\* NoonSpace.activeScene setter.  A dict that holds no guid stays a dict, and
\* looking a dict up in the scene map raises TypeError (unhashable).
SetActiveScene(w, id, value) ==
  IF w.exc # "" THEN w
  ELSE LET actualValue == IF value.t = "dict" /\ value.s # NoneStr
                          THEN PyStr(value.s) ELSE value
       IN IF actualValue.t = "dict" THEN [w EXCEPT !.exc = "TypeError"]
          ELSE IF ScenesGet(w.heap[id], actualValue) = NoObj THEN w
          ELSE LET valueChanged == PyNe(w.heap[id].activeScene, actualValue)
                   w1 == [w EXCEPT !.heap[id].activeScene = actualValue]
               IN IF valueChanged
                  THEN DispatchEvent(w1, id, "SCENE_CHANGED", "sceneId", actualValue)
                  ELSE w1

\* NoonLine.lineState setter with "on"/"off" turned into booleans first.
SetLineStateCoerced(w, id, value) ==
  IF w.exc # "" THEN w
  ELSE LET v == IF value = PyStr("on") THEN PyBool(TRUE)
                ELSE IF value = PyStr("off") THEN PyBool(FALSE) ELSE value
           valueChanged == PyNe(w.heap[id].lineState, v)
           w1 == [w EXCEPT !.heap[id].lineState = v]
       IN IF valueChanged
          THEN DispatchEvent(w1, id, "LINE_STATE_CHANGED", "lineState", v)
          ELSE w1

\* NoonLine.lineState setter: the value is compared and stored as given.
SetLineState(w, id, value) ==
  IF w.exc # "" THEN w
  ELSE LET valueChanged == PyNe(w.heap[id].lineState, value)
           w1 == [w EXCEPT !.heap[id].lineState = value]
       IN IF valueChanged
          THEN DispatchEvent(w1, id, "LINE_STATE_CHANGED", "lineState", value)
          ELSE w1

\* NoonLine.dimmingLevel setter.
SetDimmingLevel(w, id, value) ==
  IF w.exc # "" THEN w
  ELSE LET valueChanged == PyNe(w.heap[id].dimmingLevel, value)
           w1 == [w EXCEPT !.heap[id].dimmingLevel = value]
       IN IF valueChanged
          THEN DispatchEvent(w1, id, "DIM_LEVEL_CHANGED", "dimLevel", value)
          ELSE w1

\* raise: the call ends with exception x.
Raise(w, x) == [w EXCEPT !.exc = x]

\* NoonSpace.__init__ as fromJsonObject calls it: NoonSpace(noon, guid, name).
\* The two "initial updates" go through the setters with None.
NewSpace(w, guid, name) ==
  LET id == Len(w.heap) + 1
      w1 == Construct(w, BlankEntity("space", guid, name, NoObj))
  IN SetLightsOn(SetActiveScene(w1, id, PyNone), id, PyNone)

\* NoonLine.__init__ as fromJsonObject calls it: NoonLine(noon, space, guid, name).
NewLine(w, space, guid, name) ==
  LET id == Len(w.heap) + 1
      w1 == Construct(w, BlankEntity("line", guid, name, space))
  IN SetDimmingLevel(SetLineState(w1, id, PyNone), id, PyNone)

\* NoonScene.fromJsonObject and NoonScene.__init__.
SceneFromJsonObject(w, space, json) ==
  IF w.exc # "" THEN w
  ELSE IF json.guid = NoneStr \/ json.name = NoneStr
       THEN Raise(w, "NoonInvalidJsonError")
       ELSE Construct(w, BlankEntity("scene", json.guid, json.name, space))

\* NoonDevice.fromJsonObject and NoonDevice.__init__.  The constructor's
\* isinstance('string', line) has its arguments swapped: the second one is the
\* JSON value of "line", never a type, so the call raises TypeError before the
\* device is registered.
DeviceFromJsonObject(w, space, json) ==
  IF w.exc # "" THEN w
  ELSE IF json.guid = NoneStr \/ json.displayName = NoneStr
       THEN Raise(w, "NoonInvalidJsonError")
       ELSE Raise(w, "TypeError")

\* NoonLine.fromJsonObject.
LineFromJsonObject(w, space, json) ==
  IF w.exc # "" THEN w
  ELSE IF json.guid = NoneStr \/ json.displayName = NoneStr
       THEN Raise(w, "NoonInvalidJsonError")
       ELSE LET id == Len(w.heap) + 1
                w1 == NewLine(w, space, json.guid, json.displayName)
            IN SetDimmingLevel(SetLineState(w1, id, json.lineState),
                               id, json.dimmingLevel)

\* The "Scenes" loop of NoonSpace.fromJsonObject, from the i-th entry on:
\* the world it leaves, scenesMap, and thisScene (the last scene built).
RECURSIVE BuildScenes(_, _, _, _, _, _)
BuildScenes(w, space, scs, i, map, last) ==
  IF i > Len(scs) \/ w.exc # "" THEN [w |-> w, map |-> map, last |-> last]
  ELSE LET w1 == SceneFromJsonObject(w, space, scs[i])
       IN IF w1.exc # "" THEN [w |-> w1, map |-> map, last |-> last]
          ELSE BuildScenes(w1, space, scs, i + 1,
                           [map EXCEPT ![scs[i].guid] = Len(w1.heap)],
                           Len(w1.heap))

\* The "Devices" loop: devicesMap[thisDevice.guid] = thisScene stores the last
\* scene, not the device (and thisScene is unbound when no scene was built).
RECURSIVE BuildDevices(_, _, _, _, _, _)
BuildDevices(w, space, dvs, i, map, thisScene) ==
  IF i > Len(dvs) \/ w.exc # "" THEN [w |-> w, map |-> map]
  ELSE LET w1 == DeviceFromJsonObject(w, space, dvs[i])
       IN IF w1.exc # "" THEN [w |-> w1, map |-> map]
          ELSE IF thisScene = NoObj
               THEN [w |-> Raise(w1, "UnboundLocalError"), map |-> map]
               ELSE BuildDevices(w1, space, dvs, i + 1,
                                 [map EXCEPT ![dvs[i].guid] = thisScene],
                                 thisScene)

\* The "Lines" loop.
RECURSIVE BuildLines(_, _, _, _, _)
BuildLines(w, space, lns, i, map) ==
  IF i > Len(lns) \/ w.exc # "" THEN [w |-> w, map |-> map]
  ELSE LET w1 == LineFromJsonObject(w, space, lns[i])
       IN IF w1.exc # "" THEN [w |-> w1, map |-> map]
          ELSE BuildLines(w1, space, lns, i + 1,
                          [map EXCEPT ![lns[i].guid] = Len(w1.heap)])

\* json.get("activeScene", {}).get("guid", None): a missing key gives None, a
\* dict gives its guid (or None); anything else (JSON null, a string) has no
\* .get and raises AttributeError.
ActiveSceneGuid(v) ==
  IF v.t = "absent" THEN PyNone
  ELSE IF v.s = NoneStr THEN PyNone ELSE PyStr(v.s)

\* NoonSpace.fromJsonObject with the status fields applied right after the
\* space is constructed, before its scenes are built.
SpaceFromJsonObjectStatusFirst(w, json) ==
  IF w.exc # "" THEN w
  ELSE IF json.guid = NoneStr \/ json.name = NoneStr
       THEN Raise(w, "NoonInvalidJsonError")
  ELSE LET sp == Len(w.heap) + 1
           w1 == NewSpace(w, json.guid, json.name)
           w1a == IF json.activeScene.t \notin {"absent", "dict"}
                  THEN Raise(w1, "AttributeError")
                  ELSE SetActiveScene(SetLightsOn(w1, sp, json.lightsOn), sp,
                                      ActiveSceneGuid(json.activeScene))
           r1 == BuildScenes(w1a, sp, json.scenes, 1, NoMap, NoObj)
           w2 == IF r1.w.exc # "" THEN r1.w
                 ELSE [r1.w EXCEPT !.heap[sp].scenes = r1.map]
           r2 == BuildDevices(w2, sp, json.devices, 1, NoMap, r1.last)
           w3 == IF r2.w.exc # "" THEN r2.w
                 ELSE [r2.w EXCEPT !.heap[sp].devices = r2.map]
           r3 == BuildLines(w3, sp, json.lines, 1, NoMap)
       IN IF r3.w.exc # "" THEN r3.w
          ELSE [r3.w EXCEPT !.heap[sp].lines = r3.map]

\* NoonSpace.fromJsonObject: the space, then its scenes, devices and lines,
\* then lightsOn and activeScene through the setters.
SpaceFromJsonObject(w, json) ==
  IF w.exc # "" THEN w
  ELSE IF json.guid = NoneStr \/ json.name = NoneStr
       THEN Raise(w, "NoonInvalidJsonError")
  ELSE LET sp == Len(w.heap) + 1
           w1 == NewSpace(w, json.guid, json.name)
           r1 == BuildScenes(w1, sp, json.scenes, 1, NoMap, NoObj)
           w2 == IF r1.w.exc # "" THEN r1.w
                 ELSE [r1.w EXCEPT !.heap[sp].scenes = r1.map]
           r2 == BuildDevices(w2, sp, json.devices, 1, NoMap, r1.last)
           w3 == IF r2.w.exc # "" THEN r2.w
                 ELSE [r2.w EXCEPT !.heap[sp].devices = r2.map]
           r3 == BuildLines(w3, sp, json.lines, 1, NoMap)
           w4 == IF r3.w.exc # "" THEN r3.w
                 ELSE [r3.w EXCEPT !.heap[sp].lines = r3.map]
       IN IF w4.exc # "" THEN w4
          ELSE IF json.activeScene.t \notin {"absent", "dict"}
               THEN Raise(w4, "AttributeError")
               ELSE SetActiveScene(SetLightsOn(w4, sp, json.lightsOn), sp,
                                   ActiveSceneGuid(json.activeScene))

\* NoonEntity.subscribe.
Subscribe(w, id, handler) ==
  [w EXCEPT !.heap[id].subscribers = Append(@, handler)]

(***************************************************************************)
(* Authentication.  Times are seconds since the Noon object was created;   *)
(* a call reads the clock once.                                            *)
(***************************************************************************)
\* The safety margin taken off both lifetimes.
TokenMargin == 30

Tokens == {"t1", "t2"}

\* "lifetime" and "renewLifetime" values a response may carry (seconds).
Lifetimes == {40, 3600}

RenewLifetimes == {60, 7200}

\* __loginResponse = None
NoResponse ==
  [shape |-> "none", token |-> NoneStr, hasLifetime |-> FALSE, lifetime |-> 0,
   hasRenewLifetime |-> FALSE, renewLifetime |-> 0]

\* What the login or renewal endpoint may answer: a body that is no JSON, a
\* JSON list, an object without a token, an object with one.
TokenResponses ==
  {[shape |-> "dict", token |-> tk, hasLifetime |-> hl,
    lifetime |-> IF hl THEN l ELSE 0, hasRenewLifetime |-> hr,
    renewLifetime |-> IF hr THEN r ELSE 0] :
      tk \in Tokens, hl \in BOOLEAN, l \in Lifetimes,
      hr \in BOOLEAN, r \in RenewLifetimes}

FailedResponses ==
  {[NoResponse EXCEPT !.shape = sh] : sh \in {"notjson", "list", "dict"}}

LoginResponses == TokenResponses \cup FailedResponses

AllEndpoints == {"query", "action", "notification-ws"}

\* What the endpoint directory may answer.
EndpointResponses ==
  {[shape |-> "notjson", hasEndpoints |-> FALSE, endpoints |-> {}],
   [shape |-> "dict", hasEndpoints |-> FALSE, endpoints |-> {}],
   [shape |-> "dict", hasEndpoints |-> TRUE, endpoints |-> {}],
   [shape |-> "dict", hasEndpoints |-> TRUE, endpoints |-> AllEndpoints]}

\* result.get("lifetime", 0) and result.get("renewLifetime", 0)
GetLifetime(resp) == IF resp.hasLifetime THEN resp.lifetime ELSE 0

GetRenewLifetime(resp) == IF resp.hasRenewLifetime THEN resp.renewLifetime ELSE 0

\* The expiry with no safety margin.
ExpiryNoMargin(t, life) == t + life

\* datetime.now() + timedelta(seconds = (life - 30))
Expiry(t, life) == t + (life - TokenMargin)

\* The cached-token test with its comparison turned round.
TokenUsableFlipped(n, t) == n.token # NoneStr /\ n.tokenValidUntil < t

\* self.__token is not None and self.__tokenValidUntil > datetime.now()
TokenUsable(n, t) == n.token # NoneStr /\ n.tokenValidUntil > t

\* The request authenticate sends: the credentials to LOGIN_URL while
\* tokenRenewValidUntil lies ahead, the stored login response to
\* RENEW_TOKEN_URL otherwise.
AuthRequest(n, t) ==
  IF n.tokenRenewValidUntil > t
  THEN [url |-> "LOGIN_URL", body |-> "credentials", payload |-> NoResponse]
  ELSE [url |-> "RENEW_TOKEN_URL", body |-> "loginResponse",
        payload |-> n.loginResponse]

\* Noon._refreshEndpoints
RefreshEndpoints(w, ep) ==
  IF w.exc # "" THEN w
  ELSE LET w1 == [w EXCEPT !.requests = Append(@,
                    [url |-> "DEX_URL", body |-> "none", payload |-> NoResponse])]
       IN IF ep.shape = "notjson" THEN Raise(w1, "JSONDecodeError")
          ELSE IF ep.shape = "dict" /\ ep.hasEndpoints
               THEN [w1 EXCEPT !.noon.endpoints = ep.endpoints]
               ELSE Raise(w1, "NoonAuthenticationError")

\* Noon.authenticate at time t, with the answers the two endpoints would give.
\* `self._refreshEndpoints` under the len(...) == 0 test is a bare attribute
\* reference, no call; the call after it is unconditional.
Authenticate(w, t, resp, ep) ==
  IF w.exc # "" THEN w
  ELSE IF TokenUsable(w.noon, t) THEN w
  ELSE LET w1 == [w EXCEPT !.requests = Append(@, AuthRequest(w.noon, t))]
       IN IF resp.shape = "notjson" THEN Raise(w1, "JSONDecodeError")
          ELSE IF resp.shape = "dict" /\ resp.token # NoneStr
               THEN RefreshEndpoints(
                      [w1 EXCEPT !.noon.authenticated = TRUE,
                                 !.noon.loginResponse = resp,
                                 !.noon.token = resp.token,
                                 !.noon.tokenValidUntil =
                                     Expiry(t, GetLifetime(resp)),
                                 !.noon.tokenRenewValidUntil =
                                     Expiry(t, GetRenewLifetime(resp))],
                      ep)
               ELSE Raise(w1, "NoonAuthenticationError")

(***************************************************************************)
(* The event stream.  listeners[i] is the i-th listener thread started:    *)
(* "started" (the thread runs, _thread_event_function has not), then       *)
(* "connecting" (run_forever, not open yet), "open", and "closed" (the     *)
(* close handler ran and the thread ended) or "dead" (the thread function  *)
(* raised).                                                                *)
(***************************************************************************)
\* The window of the close handler (seconds).
ReconnectWindow == 30

\* Noon.connect at time t.
Connect(w, t, resp, ep) ==
  IF w.exc # "" THEN w
  ELSE LET w0 == [w EXCEPT !.calls = Append(@, "connect")]
           w1 == Authenticate(w0, t, resp, ep)
       IN IF w1.exc # "" THEN w1
          ELSE IF ~w1.noon.subscribed
               THEN [w1 EXCEPT !.noon.subscribed = TRUE,
                               !.listeners = Append(@, "started")]
               ELSE w1

\* self.__lastConnectAttempt < (datetime.datetime.now() - timedelta(seconds = 30))
GiveUp(lastConnectAttempt, t) ==
  lastConnectAttempt < t - ReconnectWindow

\* Noon._websocket_disconnected on listener i at time t.
WebsocketDisconnected(w, i, t, resp, ep) ==
  LET w1 == [w EXCEPT !.noon.subscribed = FALSE, !.listeners[i] = "closed"]
  IN IF GiveUp(w.noon.lastConnectAttempt, t)
     THEN Raise(w1, "NoonException")
     ELSE Connect(w1, t, resp, ep)

\* Noon._websocket_connected
WebsocketConnected(w, i) ==
  [w EXCEPT !.noon.errorCount = 0, !.listeners[i] = "open"]

\* Noon._thread_event_function that leaves the connect-attempt time alone.
ThreadEventFunctionUnstamped(w, i, t) ==
  LET w1 == [w EXCEPT !.noon.subscribed = TRUE]
  IN IF "notification-ws" \in w1.noon.endpoints
     THEN [w1 EXCEPT !.listeners[i] = "connecting"]
     ELSE [Raise(w1, "KeyError") EXCEPT !.listeners[i] = "dead"]

\* Noon._thread_event_function up to run_forever.
ThreadEventFunction(w, i, t) ==
  LET w1 == [w EXCEPT !.noon.subscribed = TRUE,
                      !.noon.lastConnectAttempt = t]
  IN IF "notification-ws" \in w1.noon.endpoints
     THEN [w1 EXCEPT !.listeners[i] = "connecting"]
     ELSE [Raise(w1, "KeyError") EXCEPT !.listeners[i] = "dead"]

(***************************************************************************)
(* Change notifications.  A change summary ch is what one entry of         *)
(* data.changes parsed to: shape "dict" for a JSON object ("other" for a   *)
(* string, number or list, which has no .get), its guid (Absent when the   *)
(* key is missing), fieldsShape "absent", "null" or "list", and the field  *)
(* entries, each a JSON object with name and value, or something else.     *)
(***************************************************************************)
\* The writable properties looked up on every kind of entity alike.
WriteableFieldsAnyKind(kind) ==
  {"lightsOn", "activeScene", "lineState", "dimmingLevel"}

\* writeableFields: the properties of the entity's own class that have a
\* setter.  NoonScene and NoonDevice define none; name and guid are
\* read-only properties of the base class.
WriteableFields(kind) ==
  CASE kind = "space" -> {"lightsOn", "activeScene"}
    [] kind = "line" -> {"lineState", "dimmingLevel"}
    [] OTHER -> {}

\* A lookup that falls back on the space S1 for a GUID it does not hold.
AllEntitiesGetOrS1(n, guid) ==
  IF guid.t = "str" /\ guid.s \in Guids /\ n.allEntities[guid.s] # NoObj
  THEN n.allEntities[guid.s]
  ELSE n.spaces["S1"]

\* self.__allEntities.get(guid, None)
AllEntitiesGet(n, guid) ==
  IF guid.t = "str" /\ guid.s \in Guids THEN n.allEntities[guid.s] ELSE NoObj

\* changedField.get("value"): None for a key the entry lacks.
FieldValue(f) == IF f.value.t = "absent" THEN PyNone ELSE f.value

\* setattr(affectedEntity, key, value) for a key of writeableFields.
SetAttr(w, id, key, value) ==
  CASE key = "lightsOn" -> SetLightsOn(w, id, value)
    [] key = "activeScene" -> SetActiveScene(w, id, value)
    [] key = "lineState" -> SetLineState(w, id, value)
    [] key = "dimmingLevel" -> SetDimmingLevel(w, id, value)

\* The loop over changedFields of Noon._handle_change, from the i-th entry.
RECURSIVE ApplyFields(_, _, _, _)
ApplyFields(w, id, fields, i) ==
  IF i > Len(fields) \/ w.exc # "" THEN w
  ELSE IF fields[i].shape # "dict" THEN Raise(w, "AttributeError")
  ELSE IF fields[i].name \in WriteableFields(w.heap[id].kind)
       THEN ApplyFields(SetAttr(w, id, fields[i].name, FieldValue(fields[i])),
                        id, fields, i + 1)
       ELSE ApplyFields(w, id, fields, i + 1)

\* Noon._handle_change
HandleChange(w, ch) ==
  IF w.exc # "" THEN w
  ELSE IF ch.shape # "dict" THEN Raise(w, "AttributeError")
  ELSE IF ch.guid.t \in {"absent", "none"} THEN w
  ELSE LET affectedEntity == AllEntitiesGet(w.noon, ch.guid)
       IN IF affectedEntity = NoObj THEN w
          ELSE IF ch.fieldsShape = "absent" THEN w
          ELSE IF ch.fieldsShape = "null" THEN Raise(w, "TypeError")
          ELSE ApplyFields(w, affectedEntity, ch.fields, 1)

\* The loop over changes run from the last entry to the i-th.
RECURSIVE HandleChangesBackwards(_, _, _)
HandleChangesBackwards(w, changes, i) ==
  IF i > Len(changes) THEN w
  ELSE HandleChange(HandleChangesBackwards(w, changes, i + 1), changes[i])

\* The loop over changes of Noon._websocket_message, from the i-th entry.
RECURSIVE HandleChanges(_, _, _)
HandleChanges(w, changes, i) ==
  IF i > Len(changes) \/ w.exc # "" THEN w
  ELSE HandleChanges(HandleChange(w, changes[i]), changes, i + 1)

\* Noon._websocket_message.  msg.shape is "empty" (None, or shorter than 5
\* characters), "notjson", "other" (JSON that is no object) or "dict";
\* dataShape is "absent", "other" or "dict"; changesShape is "absent", "null"
\* (or any other value that cannot be iterated) or "list".
WebsocketMessage(w, msg) ==
  IF msg.shape # "dict" THEN w
  ELSE IF msg.event = "notification" /\ msg.dataShape = "dict"
       THEN IF msg.changesShape = "absent" THEN w
            ELSE IF msg.changesShape = "null" THEN Raise(w, "TypeError")
            ELSE HandleChanges(w, msg.changes, 1)
       ELSE w

(***************************************************************************)
(* Commands and discovery.  Each starts with self.authenticate(); w.calls  *)
(* records, in order, that call, its return, and the command or query      *)
(* request that follows.                                                   *)
(***************************************************************************)
\* self.authenticate() / self._noon.authenticate() as a command makes it.
CallAuthenticate(w, t, resp, ep) ==
  LET w1 == Authenticate([w EXCEPT !.calls = Append(@, "authenticate")],
                         t, resp, ep)
  IN IF w1.exc # "" THEN w1
     ELSE [w1 EXCEPT !.calls = Append(@, "authenticate.return")]

\* session.post of a command or of the discovery query.
Post(w, url, body) ==
  [w EXCEPT !.calls = Append(@, "session.post"),
            !.requests = Append(@, [url |-> url, body |-> body,
                                    payload |-> NoResponse])]

\* NoonLine.set_brightness that sends its command whatever authenticate did.
SetBrightnessUnauthenticated(w, id, brightnessLevel, t, resp, ep) ==
  LET w1 == CallAuthenticate(w, t, resp, ep)
  IN Post([w1 EXCEPT !.exc = ""], "ACTION_URL", "lightLevel")

\* NoonLine.set_brightness (turn_on is level 100, turn_off level 0).
SetBrightness(w, id, brightnessLevel, t, resp, ep) ==
  LET w1 == CallAuthenticate(w, t, resp, ep)
  IN IF w1.exc # "" THEN w1
     ELSE IF "action" \notin w1.noon.endpoints THEN Raise(w1, "KeyError")
     ELSE Post(w1, "ACTION_URL", "lightLevel")

\* A scene choice that falls back on any scene of the space.
TargetSceneOrAny(w, id, sceneIdOrName) ==
  LET o == w.heap[id]
      keys == {g \in Guids : o.scenes[g] # NoObj}
  IN IF ScenesGet(o, sceneIdOrName) # NoObj THEN ScenesGet(o, sceneIdOrName)
     ELSE IF keys # {} THEN o.scenes[CHOOSE g \in keys : TRUE]
     ELSE NoObj

\* The scene setSceneActive settles on: the key sceneIdOrName of the scene
\* map, else a scene of that name, else None.
TargetScene(w, id, sceneIdOrName) ==
  LET o == w.heap[id]
      named == {g \in Guids : /\ o.scenes[g] # NoObj
                              /\ sceneIdOrName.t = "str"
                              /\ w.heap[o.scenes[g]].name = sceneIdOrName.s}
  IN IF ScenesGet(o, sceneIdOrName) # NoObj THEN ScenesGet(o, sceneIdOrName)
     ELSE IF named # {} THEN o.scenes[CHOOSE g \in named : TRUE]
     ELSE NoObj

\* NoonSpace.setSceneActive (activateScene is active = True and
\* deactivateScene is active = False, both without a scene).
SetSceneActive(w, id, active, scene, t, resp, ep) ==
  LET w1 == CallAuthenticate(w, t, resp, ep)
      sceneIdOrName == IF scene = PyNone THEN w1.heap[id].activeScene ELSE scene
  IN IF w1.exc # "" THEN w1
     ELSE IF TargetScene(w1, id, sceneIdOrName) = NoObj
          THEN Raise(w1, "NoonInvalidParametersError")
     ELSE IF "action" \notin w1.noon.endpoints THEN Raise(w1, "KeyError")
     ELSE Post(w1, "ACTION_URL", "scene")

\* The loop over the spaces of Noon.discoverDevices, from the i-th entry.
RECURSIVE BuildSpaces(_, _, _)
BuildSpaces(w, spaces, i) ==
  IF i > Len(spaces) \/ w.exc # "" THEN w
  ELSE BuildSpaces(SpaceFromJsonObject(w, spaces[i]), spaces, i + 1)

\* Noon.discoverDevices.  qr is what the query endpoint answers: shape
\* "notjson", "other" (JSON that is no object), "nolease" (an object with no
\* "lease") or "dict"; spacesShape "list" or "other".
DiscoverDevices(w, t, resp, ep, qr) ==
  LET w1 == CallAuthenticate(w, t, resp, ep)
  IN IF w1.exc # "" THEN w1
     ELSE IF "query" \notin w1.noon.endpoints THEN Raise(w1, "KeyError")
     ELSE LET w2 == Post(w1, "QUERY_URL", "graphql")
          IN CASE qr.shape = "notjson" -> Raise(w2, "JSONDecodeError")
               [] qr.shape = "other" -> w2
               [] qr.shape = "nolease" -> Raise(w2, "AttributeError")
               [] qr.shape = "dict" ->
                    IF qr.spacesShape = "list"
                    THEN BuildSpaces(w2, qr.spaces, 1)
                    ELSE w2

(***************************************************************************)
(* Inputs of the entity operations.                                        *)
(***************************************************************************)
\* A key the JSON object does not hold.
Absent == [t |-> "absent", s |-> "", n |-> 0]

ScenePayloads ==
  {[guid |-> "SC1", name |-> "Bright"],
   [guid |-> "SC2", name |-> "Dim"],
   [guid |-> "SC1", name |-> NoneStr]}

DevicePayloads ==
  {[guid |-> "D1", displayName |-> "Switch", line |-> PyDict("L1")]}

LinePayloads ==
  {[guid |-> "L1", displayName |-> "Pendant",
    lineState |-> PyStr("on"), dimmingLevel |-> PyInt(50)],
   [guid |-> "L1", displayName |-> NoneStr,
    lineState |-> PyNone, dimmingLevel |-> PyNone]}

\* The spaces of a discovery payload.  The first device of a space ends the
\* call, so one device per space is enough; one payload stands for the
\* spaces that lack their name.
SpacePayloads ==
  {[guid |-> g, name |-> "Kitchen", scenes |-> sc, devices |-> dv,
    lines |-> ln, lightsOn |-> lo, activeScene |-> ac] :
      g \in {"S1", "S2"},
      sc \in SeqsUpTo(ScenePayloads, MaxChildren),
      dv \in SeqsUpTo(DevicePayloads, 1),
      ln \in SeqsUpTo(LinePayloads, MaxChildren),
      lo \in {PyNone, PyBool(TRUE)},
      ac \in {Absent, PyNone, PyDict("SC1"), PyDict("SC2")}}
  \cup
  {[guid |-> "S1", name |-> NoneStr, scenes |-> <<>>, devices |-> <<>>,
    lines |-> <<>>, lightsOn |-> PyNone, activeScene |-> Absent]}

\* Well-formed spaces with one scene and one line: what the setters are tried
\* on.
FullSpacePayloads ==
  {p \in SpacePayloads :
     /\ p.guid = "S1" /\ p.name # NoneStr /\ p.devices = <<>>
     /\ Len(p.scenes) = 1 /\ Len(p.lines) = 1
     /\ \A i \in 1..Len(p.scenes) : p.scenes[i].name # NoneStr
     /\ \A i \in 1..Len(p.lines) : p.lines[i].displayName # NoneStr
     /\ p.activeScene \in {Absent, PyDict("SC1")}}

LightsOnValues == {PyBool(TRUE), PyBool(FALSE), PyInt(1)}

ActiveSceneValues ==
  {PyNone, PyStr("SC1"), PyStr("SC2"), PyDict("SC1"), PyDict(NoneStr)}

LineStateValues ==
  {PyStr("on"), PyStr("off"), PyBool(TRUE), PyStr("flicker")}

DimmingLevelValues == {PyInt(50), PyInt(100)}

\* Spaces with at most one scene and one line, all well formed: what the
\* change notifications are tried on.
NotifySpacePayloads ==
  {p \in SpacePayloads :
     /\ p.guid = "S1" /\ p.name # NoneStr /\ p.devices = <<>>
     /\ p.lightsOn = PyBool(TRUE)
     /\ \A i \in 1..Len(p.scenes) : p.scenes[i] = [guid |-> "SC1", name |-> "Bright"]
     /\ \A i \in 1..Len(p.lines) : p.lines[i].displayName # NoneStr
     /\ Len(p.lines) <= Len(p.scenes)
     /\ p.activeScene \in {Absent, PyDict("SC2")}}

\* {"name": name, "value": value}
Field(name, value) == [shape |-> "dict", name |-> name, value |-> value]

\* An entry of "fields" that is no JSON object.
BadField == [shape |-> "other", name |-> NoneStr, value |-> Absent]

\* {"guid": guid, "fields": [...]}
Change(guid, fields) ==
  [shape |-> "dict", guid |-> guid, fieldsShape |-> "list", fields |-> fields]

\* An entry of "changes" that is no JSON object.
BadChange ==
  [shape |-> "other", guid |-> Absent, fieldsShape |-> "absent", fields |-> <<>>]

\* The change summaries a notification may carry.
ChangeEntries ==
  {Change(PyStr("S1"), <<f>>) :
     f \in {Field("lightsOn", PyBool(TRUE)), Field("lightsOn", PyBool(FALSE)),
            Field("activeScene", PyStr("SC1")), Field("activeScene", PyStr("SC2")),
            Field("lineState", PyStr("on")), Field("name", PyStr("Hall")),
            BadField}}
  \cup
  {Change(PyStr("L1"), <<f>>) :
     f \in {Field("lineState", PyStr("off")), Field("dimmingLevel", Absent)}}
  \cup
  {Change(g, <<Field("lightsOn", PyBool(FALSE))>>) :
     g \in {PyStr("SC1"), PyStr("S2"), Absent}}
  \cup
  {Change(PyStr("S1"), <<Field("bogus", PyInt(1)),
                         Field("lightsOn", PyBool(FALSE)),
                         Field("activeScene", PyStr("SC1"))>>),
   [Change(PyStr("S1"), <<>>) EXCEPT !.fieldsShape = "absent"],
   [Change(PyStr("S1"), <<>>) EXCEPT !.fieldsShape = "null"],
   BadChange}

\* {"event": "notification", "data": {"changes": [...]}}
Notification(changes) ==
  [shape |-> "dict", event |-> "notification", dataShape |-> "dict",
   changesShape |-> "list", changes |-> changes]

\* The messages the stream may deliver.
Messages ==
  {[Notification(<<>>) EXCEPT !.shape = sh] : sh \in {"empty", "notjson", "other"}}
  \cup
  {[Notification(<<>>) EXCEPT !.event = "keepalive"],
   [Notification(<<>>) EXCEPT !.dataShape = "absent", !.changesShape = "absent"],
   [Notification(<<>>) EXCEPT !.changesShape = "absent"],
   [Notification(<<>>) EXCEPT !.changesShape = "null"]}
  \cup
  {Notification(<<c>>) : c \in ChangeEntries}
  \cup
  {Notification(<<BadChange, Change(PyStr("S1"), <<Field("lightsOn", PyBool(FALSE))>>)>>),
   Notification(<<Change(PyStr("S2"), <<Field("lightsOn", PyBool(FALSE))>>),
                  Change(PyStr("S1"), <<Field("lightsOn", PyBool(FALSE)),
                                         Field("activeScene", PyStr("SC1"))>>),
                  Change(PyStr("S1"), <<Field("lightsOn", PyBool(TRUE))>>)>>)}


\* The spaces a discovery answer is made of: S1 with or without a scene
\* (possibly nameless), a device, a line (possibly nameless) and an active
\* scene; a bare S2; a space that lacks its name.
DiscoverySpacePayloads ==
  {p \in SpacePayloads :
     \/ /\ p.guid = "S1" /\ p.name # NoneStr /\ p.lightsOn = PyBool(TRUE)
        /\ \A i \in 1..Len(p.scenes) : p.scenes[i].guid = "SC1"
        /\ p.activeScene \in {Absent, PyDict("SC1")}
     \/ /\ p.guid = "S2" /\ p.scenes = <<>> /\ p.devices = <<>> /\ p.lines = <<>>
        /\ p.lightsOn = PyNone /\ p.activeScene = Absent
     \/ p.name = NoneStr}

\* {"lease": {"structure": {"spaces": [...]}}}
QueryResponse(spaces) ==
  [shape |-> "dict", spacesShape |-> "list", spaces |-> spaces]

\* What the query endpoint may answer: one space, or a bare or nameless
\* space followed by a second one.
QueryResponses ==
  {[QueryResponse(<<>>) EXCEPT !.shape = sh] : sh \in {"notjson", "other", "nolease"}}
  \cup
  {[QueryResponse(<<>>) EXCEPT !.spacesShape = "other"]}
  \cup
  {QueryResponse(<<p>>) : p \in DiscoverySpacePayloads}
  \cup
  {QueryResponse(<<p, q>>) :
     p \in {x \in DiscoverySpacePayloads : x.guid = "S2" \/ x.name = NoneStr},
     q \in {x \in DiscoverySpacePayloads :
              /\ x.devices = <<>> /\ x.activeScene # Absent
              /\ Len(x.scenes) + Len(x.lines) = 1}}

\* The answers to the query that the commands are tried with: no JSON, and
\* the space S1 with a scene and a line.
CommandQueryResponses ==
  {r \in QueryResponses :
     \/ r.shape = "notjson"
     \/ /\ r.shape = "dict" /\ r.spacesShape = "list" /\ Len(r.spaces) = 1
        /\ r.spaces[1] \in FullSpacePayloads}

\* The answers the login endpoint gives to a command: a token good for ten
\* seconds, a JSON list, or no JSON.
CommandLoginResponses ==
  {r \in LoginResponses :
     \/ r.shape \in {"list", "notjson"}
     \/ /\ r.token = "t1" /\ r.hasLifetime /\ r.hasRenewLifetime
        /\ r.lifetime = 40 /\ r.renewLifetime = 7200}

BrightnessLevels == {0, 100}

\* active: None, True (activateScene) or False (deactivateScene).
SceneActiveValues == {PyNone, PyBool(TRUE), PyBool(FALSE)}

\* sceneIdOrName: None, a GUID or a name.
SceneIdsOrNames == {PyNone, PyStr("SC1"), PyStr("Bright"), PyStr("SC2")}

\* Seconds the clock may advance by in one step.
TickSteps == {10, 30}

(***************************************************************************)
(* connect() step by step, for calls that run on several threads at once.  *)
(* A call that found the flag clear at line 762 holds a listener slot      *)
(* "checked" until it reaches lines 763-766; a close handler that cleared  *)
(* the flag and chose to reconnect is "closing" until its connect() has    *)
(* read the flag.                                                          *)
(***************************************************************************)
\* Noon.connect up to and including the test of line 762.
ConnectCheck(w, t, resp, ep) ==
  IF w.exc # "" THEN w
  ELSE LET w0 == [w EXCEPT !.calls = Append(@, "connect")]
           w1 == Authenticate(w0, t, resp, ep)
       IN IF w1.exc # "" THEN w1
          ELSE IF ~w1.noon.subscribed
               THEN [w1 EXCEPT !.listeners = Append(@, "checked")]
               ELSE w1

\* Noon.connect, lines 763-766, for the call that holds slot i.
ConnectStart(w, i) ==
  [w EXCEPT !.noon.subscribed = TRUE, !.listeners[i] = "started"]

\* Noon._websocket_disconnected up to the call of connect() at line 832.
DisconnectedFlag(w, i, t) ==
  LET w1 == [w EXCEPT !.noon.subscribed = FALSE]
  IN IF GiveUp(w.noon.lastConnectAttempt, t)
     THEN [Raise(w1, "NoonException") EXCEPT !.listeners[i] = "closed"]
     ELSE [w1 EXCEPT !.listeners[i] = "closing"]

\* The connect() of line 832, up to its test of line 762; the listener
\* thread i ends once that call returns.
DisconnectedConnect(w, i, t, resp, ep) ==
  ConnectCheck([w EXCEPT !.listeners[i] = "closed"], t, resp, ep)

(***************************************************************************)
(* The state machine.                                                      *)
(***************************************************************************)
\* Noon.__init__; the two expiry times are the time of construction.
Init ==
  /\ now = 0
  /\ noon = [privAuthenticated |-> FALSE, authenticated |-> FALSE,
             token |-> NoneStr, loginResponse |-> NoResponse,
             tokenValidUntil |-> 0, tokenRenewValidUntil |-> 0,
             subscribed |-> FALSE, endpoints |-> {},
             errorCount |-> 0, lastConnectAttempt |-> 0,
             spaces |-> NoMap, devices |-> NoMap, lines |-> NoMap,
             scenes |-> NoMap, allEntities |-> NoMap]
  /\ heap = <<>>
  /\ listeners = <<>>
  /\ lastCall = [op |-> "__init__", obj |-> NoObj, arg |-> PyNone,
                 calls |-> <<>>, exc |-> ""]
  /\ events = <<>>
  /\ requests = <<>>

\* The world a handler starts from.
World ==
  [noon |-> noon, heap |-> heap, listeners |-> listeners,
   events |-> <<>>, requests |-> <<>>, calls |-> <<>>, exc |-> ""]

\* The state a handler call leaves, with the record of the call: op on
\* object obj (or NoObj) with argument arg.
Finish(w, op, obj, arg) ==
  /\ noon' = w.noon
  /\ heap' = w.heap
  /\ listeners' = w.listeners
  /\ events' = w.events
  /\ requests' = w.requests
  /\ lastCall' = [op |-> op, obj |-> obj, arg |-> arg,
                  calls |-> w.calls, exc |-> w.exc]
  /\ UNCHANGED now

RECURSIVE SubsFrom(_)
SubsFrom(i) ==
  IF i > Len(heap) THEN 0 ELSE Len(heap[i].subscribers) + SubsFrom(i + 1)

OfKind(k) == {i \in 1..Len(heap) : heap[i].kind = k}

SpaceFromJson(Payloads) ==
  \E json \in Payloads :
    /\ Len(heap) + 1 + Len(json.scenes) + Len(json.lines) <= MaxObjs
    /\ Finish(SpaceFromJsonObject(World, json), "NoonSpace.fromJsonObject",
              NoObj, json)

DoSpaceFromJson == SpaceFromJson(SpacePayloads)

DoFullSpaceFromJson == SpaceFromJson(FullSpacePayloads)

DoSubscribe ==
  \E id \in 1..Len(heap), h \in Handlers :
    /\ SubsFrom(1) < MaxSubs
    /\ Finish(Subscribe(World, id, h), "subscribe", id, h)

\* subscribe with the one handler h1, on an entity that dispatches events.
DoSubscribeOne ==
  \E id \in OfKind("space") \cup OfKind("line") :
    /\ SubsFrom(1) < MaxSubs
    /\ Finish(Subscribe(World, id, "h1"), "subscribe", id, "h1")

DoSetLightsOn ==
  \E id \in OfKind("space"), v \in LightsOnValues :
    Finish(SetLightsOn(World, id, v), "lightsOn", id, v)

DoSetActiveScene ==
  \E id \in OfKind("space"), v \in ActiveSceneValues :
    Finish(SetActiveScene(World, id, v), "activeScene", id, v)

DoSetLineState ==
  \E id \in OfKind("line"), v \in LineStateValues :
    Finish(SetLineState(World, id, v), "lineState", id, v)

DoSetDimmingLevel ==
  \E id \in OfKind("line"), v \in DimmingLevelValues :
    Finish(SetDimmingLevel(World, id, v), "dimmingLevel", id, v)

\* Time passes between calls.
Tick ==
  /\ \E d \in TickSteps : now + d <= 10 * MaxTicks /\ now' = now + d
  /\ lastCall' = [op |-> "tick", obj |-> NoObj, arg |-> PyNone,
                  calls |-> <<>>, exc |-> ""]
  /\ events' = <<>>
  /\ requests' = <<>>
  /\ UNCHANGED <<noon, heap, listeners>>

DoAuthenticate ==
  \E resp \in LoginResponses, ep \in EndpointResponses :
    Finish(Authenticate(World, now, resp, ep), "authenticate", NoObj, PyNone)

\* The answers the stream specification lets the service give.
StreamLoginResponses ==
  {r \in LoginResponses :
     \/ r.shape = "list"
     \/ /\ r.token = "t1" /\ r.hasLifetime /\ r.hasRenewLifetime
        /\ r.lifetime = 40 /\ r.renewLifetime = 7200}

StreamEndpointResponses ==
  {e \in EndpointResponses : e.hasEndpoints}

DoConnect ==
  \E resp \in StreamLoginResponses, ep \in StreamEndpointResponses :
    /\ Len(listeners) < MaxListeners
    /\ Finish(Connect(World, now, resp, ep), "connect", NoObj, PyNone)

DoThreadEventFunction ==
  \E i \in 1..Len(listeners) :
    /\ listeners[i] = "started"
    /\ Finish(ThreadEventFunction(World, i, now), "_thread_event_function",
              NoObj, i)

DoWebsocketConnected ==
  \E i \in 1..Len(listeners) :
    /\ listeners[i] = "connecting"
    /\ Finish(WebsocketConnected(World, i), "_websocket_connected", NoObj, i)

\* The stream closes, open or still connecting.
DoWebsocketDisconnected ==
  \E i \in 1..Len(listeners), resp \in StreamLoginResponses,
     ep \in StreamEndpointResponses :
    /\ listeners[i] \in {"connecting", "open"}
    /\ Len(listeners) < MaxListeners
    /\ Finish(WebsocketDisconnected(World, i, now, resp, ep),
              "_websocket_disconnected", NoObj, i)

\* A connect() call reaches its test of the subscribed flag.
DoConnectCheck ==
  \E resp \in StreamLoginResponses, ep \in StreamEndpointResponses :
    /\ Len(listeners) < MaxListeners
    /\ Finish(ConnectCheck(World, now, resp, ep), "connect.check", NoObj,
              PyNone)

\* A connect() call that passed the test sets the flag and starts its thread.
DoConnectStart ==
  \E i \in 1..Len(listeners) :
    /\ listeners[i] = "checked"
    /\ Finish(ConnectStart(World, i), "connect.start", NoObj, i)

\* The stream closes and the close handler clears the flag.
DoDisconnectedFlag ==
  \E i \in 1..Len(listeners) :
    /\ listeners[i] \in {"connecting", "open"}
    /\ Finish(DisconnectedFlag(World, i, now),
              "_websocket_disconnected.flag", NoObj, i)

\* The close handler's connect() reaches its test of the subscribed flag.
DoDisconnectedConnect ==
  \E i \in 1..Len(listeners), resp \in StreamLoginResponses,
     ep \in StreamEndpointResponses :
    /\ listeners[i] = "closing"
    /\ Len(listeners) < MaxListeners
    /\ Finish(DisconnectedConnect(World, i, now, resp, ep),
              "_websocket_disconnected.connect", NoObj, i)

DoNotifySpaceFromJson == SpaceFromJson(NotifySpacePayloads)

\* A message arrives on the stream.
DoWebsocketMessage ==
  \E msg \in Messages :
    Finish(WebsocketMessage(World, msg), "_websocket_message", NoObj, msg)

\* The entity objects the spaces of a discovery answer may become.
RECURSIVE ObjectsIn(_, _)
ObjectsIn(spaces, i) ==
  IF i > Len(spaces) THEN 0
  ELSE 1 + Len(spaces[i].scenes) + Len(spaces[i].lines) + ObjectsIn(spaces, i + 1)

DiscoverDevicesWith(Logins, Directories, Answers) ==
  \E resp \in Logins, ep \in Directories, qr \in Answers :
    /\ Len(heap) + ObjectsIn(qr.spaces, 1) <= MaxObjs
    /\ Finish(DiscoverDevices(World, now, resp, ep, qr), "discoverDevices",
              NoObj, qr)

\* discoverDevices with any outcome of the authentication and one of two
\* answers to the query.
DoDiscoverDevices ==
  DiscoverDevicesWith(CommandLoginResponses, EndpointResponses,
                      CommandQueryResponses)

\* discoverDevices with an authentication that succeeds and any answer to
\* the query.
DoDiscoverSpaces ==
  DiscoverDevicesWith(CommandLoginResponses \cap TokenResponses,
                      {e \in EndpointResponses : e.endpoints = AllEndpoints},
                      QueryResponses)

DoSetBrightness ==
  \E id \in OfKind("line"), level \in BrightnessLevels,
     resp \in CommandLoginResponses, ep \in EndpointResponses :
    Finish(SetBrightness(World, id, level, now, resp, ep), "set_brightness",
           id, PyInt(level))

DoSetSceneActive ==
  \E id \in OfKind("space"), active \in SceneActiveValues,
     scene \in SceneIdsOrNames,
     resp \in CommandLoginResponses, ep \in EndpointResponses :
    Finish(SetSceneActive(World, id, active, scene, now, resp, ep),
           "setSceneActive", id, scene)

NextDiscovery == DoSpaceFromJson

NextSetters ==
  \/ DoFullSpaceFromJson
  \/ DoSubscribe
  \/ DoSetLightsOn
  \/ DoSetActiveScene
  \/ DoSetLineState
  \/ DoSetDimmingLevel

NextAuth ==
  \/ DoAuthenticate
  \/ Tick

NextStream ==
  \/ DoConnect
  \/ DoThreadEventFunction
  \/ DoWebsocketConnected
  \/ DoWebsocketDisconnected
  \/ Tick

NextRace ==
  \/ DoConnectCheck
  \/ DoConnectStart
  \/ DoThreadEventFunction
  \/ DoWebsocketConnected
  \/ DoDisconnectedFlag
  \/ DoDisconnectedConnect
  \/ Tick

NextNotify ==
  \/ DoNotifySpaceFromJson
  \/ DoSubscribeOne
  \/ DoSetActiveScene
  \/ DoWebsocketMessage

NextCommands ==
  \/ DoDiscoverDevices
  \/ DoSetBrightness
  \/ DoSetSceneActive
  \/ Tick

NextQuery == DoDiscoverSpaces

Next ==
  \/ NextDiscovery \/ NextSetters \/ NextAuth \/ NextStream \/ NextNotify
  \/ NextCommands \/ NextQuery \/ NextRace

\* The whole program.
Spec == Init /\ [][Next]_vars

\* Building the entity graph: no other action writes the registry.
SpecDiscovery == Init /\ [][NextDiscovery]_vars

\* The property setters and the subscriptions, on well-formed spaces.
SpecSetters == Init /\ [][NextSetters]_vars

\* The token guard and the clock.
SpecAuth == Init /\ [][NextAuth]_vars

\* The stream supervisor, the token guard under it, and the clock.
SpecStream == Init /\ [][NextStream]_vars

\* The stream supervisor with connect() and the close handler interleaved
\* statement by statement across threads.
SpecRace == Init /\ [][NextRace]_vars

\* Change notifications on discovered spaces, with subscriptions and direct
\* activeScene assignments.
SpecNotify == Init /\ [][NextNotify]_vars

\* Discovery, run again and again, on every answer to the query.
SpecQuery == Init /\ [][NextQuery]_vars

\* Discovery and the commands, each behind the token guard, and the clock.
SpecCommands == Init /\ [][NextCommands]_vars

(***************************************************************************)
(* Properties.  An action property [][A]_vars reads the state a call       *)
(* started from unprimed and the state it left primed; lastCall' says      *)
(* which call the step was.                                                *)
(***************************************************************************)
\* The ids the registry's flat map and per-kind maps lead to.
Reachable ==
  {noon.allEntities[g] : g \in Guids} \cup {noon.spaces[g] : g \in Guids}
  \cup {noon.devices[g] : g \in Guids} \cup {noon.lines[g] : g \in Guids}
  \cup {noon.scenes[g] : g \in Guids}

KindMap(kind) ==
  CASE kind = "space" -> noon.spaces
    [] kind = "device" -> noon.devices
    [] kind = "line" -> noon.lines
    [] kind = "scene" -> noon.scenes

\* C1: when two distinct entity objects with the same GUID are registered,
\* the flat GUID-to-entity map and the per-kind map both return the one
\* registered first, and the later one is reachable through no lookup.
C1_FirstRegistrationWins ==
  \A i, j \in 1..Len(heap) :
    (/\ i < j
     /\ heap[i].guid = heap[j].guid
     /\ heap[i].kind = heap[j].kind
     /\ \A k \in 1..(i - 1) : heap[k].guid # heap[i].guid)
    => /\ noon.allEntities[heap[i].guid] = i
       /\ KindMap(heap[i].kind)[heap[i].guid] = i
       /\ j \notin Reachable

SetterOps == {"lightsOn", "activeScene", "lineState", "dimmingLevel"}

\* The property a setter writes, on object o.
Held(o, op) ==
  CASE op = "lightsOn" -> o.lightsOn
    [] op = "activeScene" -> o.activeScene
    [] op = "lineState" -> o.lineState
    [] op = "dimmingLevel" -> o.dimmingLevel

\* One invocation per subscription of object id, in subscription order.
Invocations(subs, id, op, value) ==
  [i \in 1..Len(subs) |->
     [obj |-> id, handler |-> subs[i],
      event |-> CASE op = "lightsOn" -> "LIGHTSON_CHANGED"
                  [] op = "activeScene" -> "SCENE_CHANGED"
                  [] op = "lineState" -> "LINE_STATE_CHANGED"
                  [] op = "dimmingLevel" -> "DIM_LEVEL_CHANGED",
      key |-> CASE op = "lightsOn" -> "lightsOn"
                [] op = "activeScene" -> "sceneId"
                [] op = "lineState" -> "lineState"
                [] op = "dimmingLevel" -> "dimLevel",
      value |-> value]]

\* The GUID an activeScene value stands for: {"guid": g} is g.
Guid(op, v) ==
  IF op = "activeScene" /\ v.t = "dict" /\ v.s # NoneStr THEN PyStr(v.s) ELSE v

\* C2 as stated: every setter call that returns, on a value equal to the one
\* held, invokes no handler; on a different value it stores the value and
\* invokes every subscription once with it.
C2_EverySetterStoresAndDispatches ==
  [][(lastCall'.op \in SetterOps /\ lastCall'.exc = "") =>
       LET op == lastCall'.op
           id == lastCall'.obj
           v == Guid(op, lastCall'.arg)
       IN IF PyEq(Held(heap[id], op), v)
          THEN events' = <<>>
          ELSE /\ Held(heap'[id], op) = v
               /\ events' = Invocations(heap[id].subscribers, id, op, v)]_vars

\* C2 (amended): the same, except that Space.activeScene stores and
\* dispatches only a GUID that is a key of the space's scene map; any other
\* value leaves activeScene as it was and invokes no handler.
C2_SetterDispatchesOnChange ==
  [][(lastCall'.op \in SetterOps /\ lastCall'.exc = "") =>
       LET op == lastCall'.op
           id == lastCall'.obj
           v == Guid(op, lastCall'.arg)
       IN IF op = "activeScene" /\ ScenesGet(heap[id], v) = NoObj
          THEN events' = <<>> /\ heap'[id].activeScene = heap[id].activeScene
          ELSE /\ Held(heap'[id], op) = v
               /\ events' = IF PyEq(Held(heap[id], op), v) THEN <<>>
                            ELSE Invocations(heap[id].subscribers, id, op, v)]_vars

\* A setter call on a changed value reached two different subscribers.
C2_Witness ==
  /\ lastCall.op \in SetterOps
  /\ Len(events) = 2
  /\ events[1].handler # events[2].handler
  /\ events[1].value = lastCall.arg

\* C3: a close less than 30 seconds after the last connect attempt marks the
\* supervisor unsubscribed, ends in the fatal NoonException, and neither calls
\* connect() nor starts a listener.
C3_FastCloseIsFatal ==
  [][(lastCall'.op = "_websocket_disconnected"
      /\ now - noon.lastConnectAttempt < 30) =>
       /\ ~noon'.subscribed
       /\ lastCall'.exc = "NoonException"
       /\ lastCall'.calls = <<>>
       /\ Len(listeners') = Len(listeners)]_vars

\* C4: a close 30 seconds or more after the last connect attempt calls
\* connect() exactly once and raises no fatal NoonException.
C4_SlowCloseReconnects ==
  [][(lastCall'.op = "_websocket_disconnected"
      /\ now - noon.lastConnectAttempt >= 30) =>
       /\ lastCall'.calls = <<"connect">>
       /\ lastCall'.exc # "NoonException"]_vars

\* C5: authenticate() called with tokenValidUntil <= now < tokenRenewValidUntil
\* sends the stored login response to the renewal endpoint and nothing to the
\* login endpoint.
C5_RenewsInsideRenewWindow ==
  [][(lastCall'.op = "authenticate"
      /\ noon.tokenValidUntil <= now /\ now < noon.tokenRenewValidUntil) =>
       /\ Len(requests') >= 1
       /\ requests'[1] = [url |-> "RENEW_TOKEN_URL", body |-> "loginResponse",
                          payload |-> noon.loginResponse]
       /\ \A i \in 1..Len(requests') : requests'[i].url # "LOGIN_URL"]_vars

\* C6: authenticate() called with now >= tokenRenewValidUntil and no usable
\* token (the first call on a new Noon object included) sends the
\* credentials to the login endpoint and nothing to the renewal endpoint.
C6_LogsInAfterRenewWindow ==
  [][(lastCall'.op = "authenticate"
      /\ now >= noon.tokenRenewValidUntil
      /\ ~(noon.token # NoneStr /\ now < noon.tokenValidUntil)) =>
       /\ Len(requests') >= 1
       /\ requests'[1].url = "LOGIN_URL"
       /\ requests'[1].body = "credentials"
       /\ \A i \in 1..Len(requests') : requests'[i].url # "RENEW_TOKEN_URL"]_vars

\* C7: authenticate() called while a token is held and now < tokenValidUntil
\* sends no request and leaves the token, both expiry times, the stored login
\* response and the endpoint map (every field of the Noon object) as they were.
C7_UsableTokenNoRequest ==
  [][(lastCall'.op = "authenticate"
      /\ noon.token # NoneStr /\ now < noon.tokenValidUntil) =>
       /\ requests' = <<>>
       /\ lastCall'.exc = ""
       /\ noon' = noon]_vars

\* authenticate() has just returned from a call made on a usable token.
C7_Witness ==
  /\ lastCall.op = "authenticate"
  /\ requests = <<>>
  /\ noon.token \in Tokens
  /\ now < noon.tokenValidUntil
  /\ now > 0

\* The last call was an authenticate() that got a response with a token: the
\* endpoint directory request, its second, is sent only after the token and
\* the response are stored.
GotToken == lastCall.op = "authenticate" /\ Len(requests) = 2

\* C8: after a login or renewal response with a token, received at time now
\* with lifetime L and renewLifetime R (0 for one the response lacks),
\* tokenValidUntil = now + (L - 30) and tokenRenewValidUntil = now + (R - 30);
\* L = 3600 gives tokenValidUntil = now + 3570.
C8_ExpiryTimes ==
  GotToken =>
    LET L == IF noon.loginResponse.hasLifetime
             THEN noon.loginResponse.lifetime ELSE 0
        R == IF noon.loginResponse.hasRenewLifetime
             THEN noon.loginResponse.renewLifetime ELSE 0
    IN /\ noon.tokenValidUntil = now + (L - 30)
       /\ noon.tokenRenewValidUntil = now + (R - 30)
       /\ (L = 3600 => noon.tokenValidUntil = now + 3570)

\* A token with lifetime 3600 was received some time after construction.
C8_Witness ==
  /\ GotToken
  /\ now > 0
  /\ noon.loginResponse.hasLifetime /\ noon.loginResponse.lifetime = 3600
  /\ noon.loginResponse.hasRenewLifetime
  /\ noon.tokenValidUntil = now + 3570

\* C9: setting Space.activeScene to a GUID g that is a key of the space's
\* scene map stores g and, when g differs from the value held, invokes every
\* subscription once with SCENE_CHANGED carrying g; a g that is no key leaves
\* the space as it was and invokes nothing.
C9_ActiveSceneOnlyKnownScenes ==
  [][(lastCall'.op = "activeScene" /\ lastCall'.arg.t = "str") =>
       LET id == lastCall'.obj
           g == lastCall'.arg
       IN IF heap[id].scenes[g.s] # NoObj
          THEN /\ lastCall'.exc = ""
               /\ heap'[id].activeScene = g
               /\ events' = IF heap[id].activeScene # g
                            THEN Invocations(heap[id].subscribers, id,
                                             "activeScene", g)
                            ELSE <<>>
          ELSE /\ lastCall'.exc = ""
               /\ heap' = heap
               /\ events' = <<>>]_vars

\* activeScene was set to a scene of the space and a subscriber was told.
C9_Witness ==
  /\ lastCall.op = "activeScene"
  /\ lastCall.arg.t = "str"
  /\ heap[lastCall.obj].scenes[lastCall.arg.s] # NoObj
  /\ heap[lastCall.obj].activeScene = lastCall.arg
  /\ Len(events) >= 1
  /\ events[1].event = "SCENE_CHANGED"
  /\ events[1].value = lastCall.arg

\* "on" is True, "off" is False, anything else is itself.
Coerced(v) ==
  IF v = PyStr("on") THEN PyBool(TRUE)
  ELSE IF v = PyStr("off") THEN PyBool(FALSE) ELSE v

IsNotification(msg) ==
  /\ msg.shape = "dict" /\ msg.event = "notification"
  /\ msg.dataShape = "dict" /\ msg.changesShape = "list"

\* The change summary names no entity of registry n: its guid is missing,
\* null, or a GUID the flat map does not hold.
NamesNoEntity(n, ch) ==
  /\ ch.shape = "dict"
  /\ \/ ch.guid.t \in {"absent", "none"}
     \/ ch.guid.t = "str" /\ ch.guid.s \notin Guids
     \/ ch.guid.t = "str" /\ ch.guid.s \in Guids /\ n.allEntities[ch.guid.s] = NoObj

\* C11: a change notification whose guid is missing or not registered is
\* dropped: no entity changes, no subscriber handler is invoked, no error is
\* raised and the registry is as it was.
C11_UnknownGuidDropped ==
  [][(/\ lastCall'.op = "_websocket_message"
      /\ IsNotification(lastCall'.arg)
      /\ \A i \in 1..Len(lastCall'.arg.changes) :
           NamesNoEntity(noon, lastCall'.arg.changes[i])) =>
       /\ heap' = heap
       /\ events' = <<>>
       /\ lastCall'.exc = ""
       /\ noon' = noon]_vars

\* A change for the unregistered S2 arrived while the subscribed space S1
\* held lightsOn true, and would have set lightsOn false.
C11_Witness ==
  /\ lastCall.op = "_websocket_message"
  /\ IsNotification(lastCall.arg)
  /\ Len(lastCall.arg.changes) = 1
  /\ lastCall.arg.changes[1].guid = PyStr("S2")
  /\ lastCall.arg.changes[1].fields = <<Field("lightsOn", PyBool(FALSE))>>
  /\ noon.allEntities["S2"] = NoObj
  /\ noon.allEntities["S1"] # NoObj
  /\ heap[noon.allEntities["S1"]].lightsOn = PyBool(TRUE)
  /\ Len(heap[noon.allEntities["S1"]].subscribers) >= 1
  /\ events = <<>>
  /\ lastCall.exc = ""

\* C12: connect() called while subscribed is a no-op: it starts no listener,
\* raises nothing, sends nothing and leaves the subscribed flag and the
\* session state (every field of the Noon object) as they were; called while
\* not subscribed, a connect() that returns has marked the supervisor
\* subscribed and started exactly one listener.
C12_ConnectWhileSubscribedIsNoOp ==
  [][lastCall'.op = "connect" =>
       IF noon.subscribed
       THEN /\ listeners' = listeners
            /\ lastCall'.exc = ""
            /\ requests' = <<>>
            /\ noon' = noon
       ELSE lastCall'.exc = "" =>
              /\ noon'.subscribed
              /\ noon'.token # NoneStr
              /\ Len(listeners') = Len(listeners) + 1]_vars

\* A change summary that is a JSON object whose fields, when it has any, are
\* a list of JSON objects.
WellFormedChange(ch) ==
  /\ ch.shape = "dict"
  /\ ch.fieldsShape # "null"
  /\ \A i \in 1..Len(ch.fields) : ch.fields[i].shape = "dict"

\* C13: for every inbound message the message handler returns without
\* raising and the stream stays as it was; a message that carries no
\* well-formed notification change alters no entity, invokes no handler and
\* leaves the registry alone.
C13_BadMessagesRecovered ==
  [][lastCall'.op = "_websocket_message" =>
       LET msg == lastCall'.arg
       IN /\ lastCall'.exc = ""
          /\ listeners' = listeners
          /\ (\/ ~IsNotification(msg)
              \/ \A i \in 1..Len(msg.changes) : ~WellFormedChange(msg.changes[i]))
             => (heap' = heap /\ events' = <<>> /\ noon' = noon)]_vars

\* The space payload lists the scene it names as its activeScene.
NamesListedScene(p) ==
  /\ p.activeScene.t = "dict"
  /\ \E k \in 1..Len(p.scenes) : p.scenes[k].guid = p.activeScene.s

EntityNames(p) ==
  <<p.name>>
  \o [k \in 1..Len(p.scenes) |-> p.scenes[k].name]
  \o [k \in 1..Len(p.devices) |-> p.devices[k].displayName]
  \o [k \in 1..Len(p.lines) |-> p.lines[k].displayName]

\* The same for the spaces of an answer, from the i-th on.
RECURSIVE AllEntityNames(_, _)
AllEntityNames(spaces, i) ==
  IF i > Len(spaces) THEN <<>>
  ELSE EntityNames(spaces[i]) \o AllEntityNames(spaces, i + 1)

\* C15: when an entity of the discovery answer lacks its name, the
\* discoverDevices() that received the answer fails with
\* NoonInvalidJsonError, and the entities it constructed are exactly those
\* that precede the first such entity in processing order.
C15_FirstMalformedEntityAborts ==
  [][(/\ lastCall'.op = "discoverDevices"
      /\ "session.post" \in {lastCall'.calls[k] : k \in 1..Len(lastCall'.calls)}
      /\ lastCall'.arg.shape = "dict" /\ lastCall'.arg.spacesShape = "list") =>
       LET names == AllEntityNames(lastCall'.arg.spaces, 1)
           bad == {k \in 1..Len(names) : names[k] = NoneStr}
       IN bad # {} =>
            LET first == CHOOSE k \in bad : \A m \in bad : k <= m
            IN /\ lastCall'.exc = "NoonInvalidJsonError"
               /\ Len(heap') = Len(heap) + (first - 1)
               /\ \A id \in (Len(heap) + 1)..Len(heap') :
                    heap'[id].name = names[id - Len(heap)]]_vars

CommandOps == {"set_brightness", "setSceneActive", "discoverDevices"}

CommandUrls == {"ACTION_URL", "QUERY_URL"}

\* C16: in every command (set_brightness / turn_on / turn_off, setSceneActive
\* / activateScene / deactivateScene) and every discoverDevices, the command
\* or query request is sent only after the authenticate() of the same call
\* has returned, after every request authenticate() made and with a token
\* held; when authenticate() raises, no command or query request is sent.
C16_CommandsAfterAuthentication ==
  [][lastCall'.op \in CommandOps =>
       LET c == lastCall'.calls
           posts == {k \in 1..Len(c) : c[k] = "session.post"}
           returns == {k \in 1..Len(c) : c[k] = "authenticate.return"}
           sent == {k \in 1..Len(requests') : requests'[k].url \in CommandUrls}
       IN /\ Len(c) >= 1 /\ c[1] = "authenticate"
          /\ Cardinality(posts) = Cardinality(sent)
          /\ \A k \in posts : \E j \in returns : j < k
          /\ returns = {} => sent = {}
          /\ sent # {} =>
               /\ noon'.token # NoneStr
               /\ \A k \in sent : \A j \in 1..Len(requests') :
                    requests'[j].url \notin CommandUrls => j < k]_vars

\* set_brightness found the token expired, logged in again and then sent its
\* command.
C16_Witness ==
  /\ lastCall.op = "set_brightness"
  /\ lastCall.exc = ""
  /\ lastCall.calls = <<"authenticate", "authenticate.return", "session.post">>
  /\ Len(requests) = 3
  /\ requests[1].url \in {"LOGIN_URL", "RENEW_TOKEN_URL"}
  /\ requests[3].url = "ACTION_URL"

\* C17: when authenticate() sends a login or renewal request and the answer
\* is not an object holding a token (so that no endpoint request follows),
\* it fails with NoonAuthenticationError and the token, both expiry times
\* and the stored login response are as they were.
C17_NoTokenIsAuthenticationError ==
  [][(lastCall'.op = "authenticate" /\ Len(requests') = 1) =>
       /\ lastCall'.exc = "NoonAuthenticationError"
       /\ noon'.token = noon.token
       /\ noon'.tokenValidUntil = noon.tokenValidUntil
       /\ noon'.tokenRenewValidUntil = noon.tokenRenewValidUntil
       /\ noon'.loginResponse = noon.loginResponse]_vars

\* C18: in every reachable state each space's activeScene is None or a GUID
\* that is a key of that space's own scene map.
C18_ActiveSceneResolves ==
  \A id \in 1..Len(heap) :
    heap[id].kind = "space" =>
      \/ heap[id].activeScene = PyNone
      \/ /\ heap[id].activeScene.t = "str"
         /\ heap[id].activeScene.s \in Guids
         /\ heap[id].scenes[heap[id].activeScene.s] # NoObj

\* A change notification has just made SC1, a scene of the space, the
\* space's activeScene, and a subscriber was told.
C18_Witness ==
  /\ lastCall.op = "_websocket_message"
  /\ events # <<>>
  /\ \E id \in 1..Len(heap) :
       /\ heap[id].kind = "space"
       /\ heap[id].activeScene = PyStr("SC1")
       /\ heap[id].scenes["SC1"] # NoObj
       /\ events[1].obj = id
       /\ events[1].event = "SCENE_CHANGED"

\* The objects of heap h that were constructed for the space g, oldest first
\* by id.
Generations(h, g) ==
  {id \in 1..Len(h) : h[id].kind = "space" /\ h[id].guid = g}

\* C19: once a space has been discovered a second time under the same GUID,
\* a change notification for that GUID is applied to the object of the first
\* discovery and is delivered to the handlers subscribed on that object.
C19_FirstGenerationStaysLive ==
  [][(/\ lastCall'.op = "_websocket_message"
      /\ IsNotification(lastCall'.arg)
      /\ Len(lastCall'.arg.changes) = 1
      /\ lastCall'.arg.changes[1].shape = "dict"
      /\ lastCall'.arg.changes[1].guid.t = "str"
      /\ lastCall'.arg.changes[1].fieldsShape = "list"
      /\ Len(lastCall'.arg.changes[1].fields) = 1
      /\ lastCall'.arg.changes[1].fields[1].shape = "dict"
      /\ lastCall'.arg.changes[1].fields[1].name = "lightsOn"
      /\ Cardinality(Generations(heap, lastCall'.arg.changes[1].guid.s)) >= 2) =>
       LET gens == Generations(heap, lastCall'.arg.changes[1].guid.s)
           first == CHOOSE id \in gens : \A other \in gens : id <= other
           v == FieldValue(lastCall'.arg.changes[1].fields[1])
       IN /\ heap'[first].lightsOn = v
          /\ events' = IF PyNe(heap[first].lightsOn, v)
                       THEN Invocations(heap[first].subscribers, first,
                                        "lightsOn", v)
                       ELSE <<>>]_vars

\* The writable properties of each kind, as C20 lists them.
Writable(kind) ==
  CASE kind = "space" -> {"lightsOn", "activeScene"}
    [] kind = "line" -> {"lineState", "dimmingLevel"}
    [] OTHER -> {}

\* Field f of a change for object o is taken up: its name is writable and,
\* where known says so, an activeScene value is a scene of the space.
TakenUp(o, f, known) ==
  /\ f.name \in Writable(o.kind)
  /\ (known /\ f.name = "activeScene") => ScenesGet(o, FieldValue(f)) # NoObj

\* The handler invocations the fields of one change are to cause, field by
\* field from the i-th on, on object o with id id.
RECURSIVE Dispatches(_, _, _, _, _)
Dispatches(o, id, fields, i, known) ==
  IF i > Len(fields) THEN <<>>
  ELSE (IF TakenUp(o, fields[i], known)
           /\ PyNe(Held(o, fields[i].name), FieldValue(fields[i]))
        THEN Invocations(o.subscribers, id, fields[i].name, FieldValue(fields[i]))
        ELSE <<>>)
       \o Dispatches(o, id, fields, i + 1, known)

\* The last call delivered one change, for a registered entity, whose fields
\* are JSON objects with different names.
OneChangeFor(n, msg) ==
  /\ IsNotification(msg)
  /\ Len(msg.changes) = 1
  /\ WellFormedChange(msg.changes[1])
  /\ msg.changes[1].fieldsShape = "list"
  /\ ~NamesNoEntity(n, msg.changes[1])
  /\ \A i, j \in 1..Len(msg.changes[1].fields) :
       i # j => msg.changes[1].fields[i].name # msg.changes[1].fields[j].name

\* What C20 asks of a change for a registered entity.  Every field that is
\* taken up is dispatched once to each subscription when it changed the
\* value held (and, where known says which activeScene values the setter
\* accepts, is stored); a property no such field names, and every other
\* object, stay as they were; no error is raised.
FieldsApplied(known) ==
  (lastCall'.op = "_websocket_message" /\ OneChangeFor(noon, lastCall'.arg)) =>
       LET ch == lastCall'.arg.changes[1]
           id == noon.allEntities[ch.guid.s]
           taken == {i \in 1..Len(ch.fields) : TakenUp(heap[id], ch.fields[i], known)}
       IN /\ lastCall'.exc = ""
          /\ events' = Dispatches(heap[id], id, ch.fields, 1, known)
          /\ known => \A i \in taken :
               Held(heap'[id], ch.fields[i].name) = FieldValue(ch.fields[i])
          /\ \A op \in SetterOps :
               (\A i \in taken : ch.fields[i].name # op) =>
                 Held(heap'[id], op) = Held(heap[id], op)
          /\ \A j \in 1..Len(heap) : j # id => heap'[j] = heap[j]
          /\ Len(heap') = Len(heap)
          /\ noon' = noon

AskedDirectory(reqs) == \E k \in 1..Len(reqs) : reqs[k].url = "DEX_URL"

\* C21: an authenticate() that logged in or renewed asks the endpoint
\* directory before it returns when no endpoint map is held, and sends the
\* directory no request when one is held; when the directory was asked and
\* the call failed, it failed with NoonAuthenticationError.
C21_DirectoryFetchedOnlyWhenMissing ==
  [][lastCall'.op = "authenticate" =>
       /\ (noon.endpoints = {} /\ Len(requests') >= 1 /\ lastCall'.exc = "")
            => AskedDirectory(requests')
       /\ noon.endpoints # {} => ~AskedDirectory(requests')
       /\ (AskedDirectory(requests') /\ lastCall'.exc # "")
            => lastCall'.exc = "NoonAuthenticationError"]_vars

\* The writes one change asks for, in the order of its fields: the fields
\* the setters take up, each with the object the GUID resolves to.
ChangeWrites(n, h, ch) ==
  IF NamesNoEntity(n, ch) \/ ch.fieldsShape # "list" THEN <<>>
  ELSE LET id == n.allEntities[ch.guid.s]
           Takes(f) == TakenUp(h[id], f, TRUE)
       IN [k \in 1..Len(SelectSeq(ch.fields, Takes)) |->
             [id |-> id, name |-> SelectSeq(ch.fields, Takes)[k].name,
              value |-> FieldValue(SelectSeq(ch.fields, Takes)[k])]]

\* The writes of the changes of a message, from the i-th change on, in the
\* order of data.changes.
RECURSIVE Writes(_, _, _, _)
Writes(n, h, changes, i) ==
  IF i > Len(changes) THEN <<>>
  ELSE ChangeWrites(n, h, changes[i]) \o Writes(n, h, changes, i + 1)

\* The value the k-th write finds: that of the latest earlier write to the
\* same property of the same object, else the value held in heap h.
FoundBy(h, ws, k) ==
  LET earlier == {j \in 1..(k - 1) :
                    ws[j].id = ws[k].id /\ ws[j].name = ws[k].name}
  IN IF earlier = {} THEN Held(h[ws[k].id], ws[k].name)
     ELSE ws[CHOOSE j \in earlier : \A m \in earlier : m <= j].value

\* The handler invocations of the writes ws, from the k-th on, in order.
RECURSIVE InOrder(_, _, _)
InOrder(h, ws, k) ==
  IF k > Len(ws) THEN <<>>
  ELSE (IF PyNe(FoundBy(h, ws, k), ws[k].value)
        THEN Invocations(h[ws[k].id].subscribers, ws[k].id, ws[k].name,
                         ws[k].value)
        ELSE <<>>)
       \o InOrder(h, ws, k + 1)

\* C22: the changes of one notification are applied one after the other in
\* the order of data.changes, the fields of a change in list order, each
\* write finding the values the writes before it left; the handler
\* invocations come in that order and every property ends at the value of
\* its last write.
C22_ChangesAppliedInOrder ==
  [][(/\ lastCall'.op = "_websocket_message"
      /\ IsNotification(lastCall'.arg)
      /\ \A i \in 1..Len(lastCall'.arg.changes) :
           WellFormedChange(lastCall'.arg.changes[i])) =>
       LET ws == Writes(noon, heap, lastCall'.arg.changes, 1)
       IN /\ lastCall'.exc = ""
          /\ events' = InOrder(heap, ws, 1)
          /\ \A k \in 1..Len(ws) :
               (\A j \in (k + 1)..Len(ws) :
                  ws[j].id # ws[k].id \/ ws[j].name # ws[k].name)
               => Held(heap'[ws[k].id], ws[k].name) = ws[k].value]_vars

\* A message of three changes set lightsOn false and activeScene SC1 in its
\* second change and lightsOn true in its third: the subscriber heard
\* false, SC1 and true in that order and the space holds true.
C22_Witness ==
  /\ lastCall.op = "_websocket_message"
  /\ IsNotification(lastCall.arg)
  /\ Len(lastCall.arg.changes) = 3
  /\ Len(events) = 3
  /\ events[1].event = "LIGHTSON_CHANGED" /\ events[1].value = PyBool(FALSE)
  /\ events[2].event = "SCENE_CHANGED" /\ events[2].value = PyStr("SC1")
  /\ events[3].event = "LIGHTSON_CHANGED" /\ events[3].value = PyBool(TRUE)
  /\ heap[events[3].obj].lightsOn = PyBool(TRUE)

\* C23 as stated: on a successful open the supervisor sets its error counter
\* to zero and records the time of the open as the connect-attempt time.
C23_OpenRecordsAttemptTime ==
  [][lastCall'.op = "_websocket_connected" =>
       /\ noon'.errorCount = 0
       /\ noon'.lastConnectAttempt = now]_vars

\* C23 (amended): on a successful open the supervisor sets its error counter
\* to zero and leaves the connect-attempt time as it was; that time is
\* recorded when the listener thread starts its attempt, before the stream
\* is open.
C23_AttemptTimeRecordedAtStart ==
  [][/\ lastCall'.op = "_websocket_connected" =>
          /\ noon'.errorCount = 0
          /\ noon'.lastConnectAttempt = noon.lastConnectAttempt
     /\ lastCall'.op = "_thread_event_function" =>
          noon'.lastConnectAttempt = now]_vars

\* The stream opened some time after the listener thread started its
\* attempt: the connect-attempt time is that of the start.
C23_Witness ==
  /\ lastCall.op = "_websocket_connected"
  /\ noon.errorCount = 0
  /\ noon.lastConnectAttempt > 0
  /\ noon.lastConnectAttempt < now

\* C24: a discoverDevices() whose answer is well formed throughout and holds
\* a device (guid, displayName, line {guid: ...}) in one of its spaces
\* returns without error; the device has become a device object that the
\* registry returns for its GUID and that the devices map of the space
\* built with it holds under that GUID.
C24_DeviceDiscovered ==
  [][(/\ lastCall'.op = "discoverDevices"
      /\ "session.post" \in {lastCall'.calls[k] : k \in 1..Len(lastCall'.calls)}
      /\ lastCall'.arg.shape = "dict" /\ lastCall'.arg.spacesShape = "list"
      /\ \A k \in 1..Len(AllEntityNames(lastCall'.arg.spaces, 1)) :
           AllEntityNames(lastCall'.arg.spaces, 1)[k] # NoneStr
      /\ \A i \in 1..Len(lastCall'.arg.spaces) :
           lastCall'.arg.spaces[i].activeScene.t \in {"absent", "dict"}
      /\ \E i \in 1..Len(lastCall'.arg.spaces) :
           lastCall'.arg.spaces[i].devices # <<>>) =>
       /\ lastCall'.exc = ""
       /\ \A i \in 1..Len(lastCall'.arg.spaces) :
            LET p == lastCall'.arg.spaces[i]
            IN \A k \in 1..Len(p.devices) :
                 \E d, sp \in (Len(heap) + 1)..Len(heap') :
                   /\ heap'[d].kind = "device"
                   /\ heap'[d].guid = p.devices[k].guid
                   /\ noon'.allEntities[p.devices[k].guid] = d
                   /\ noon'.devices[p.devices[k].guid] # NoObj
                   /\ heap'[sp].kind = "space" /\ heap'[sp].guid = p.guid
                   /\ heap'[sp].devices[p.devices[k].guid] = d]_vars

\* The value v is the GUID key or the name of a scene of space object o.
NamesScene(h, o, v) ==
  /\ v.t = "str"
  /\ \E g \in Guids :
       /\ o.scenes[g] # NoObj
       /\ (g = v.s \/ h[o.scenes[g]].name = v.s)

\* C25: setSceneActive with a sceneIdOrName that is neither a GUID key nor
\* the name of a scene of the space (None standing for the space's
\* activeScene, which may itself be None) sends no command request and, once
\* its authenticate() has returned, fails with NoonInvalidParametersError.
C25_UnknownSceneRejected ==
  [][lastCall'.op = "setSceneActive" =>
       LET o == heap[lastCall'.obj]
           asked == IF lastCall'.arg = PyNone THEN o.activeScene
                    ELSE lastCall'.arg
           returned == \E k \in 1..Len(lastCall'.calls) :
                         lastCall'.calls[k] = "authenticate.return"
       IN ~NamesScene(heap, o, asked) =>
            /\ \A k \in 1..Len(requests') : requests'[k].url # "ACTION_URL"
            /\ returned => lastCall'.exc = "NoonInvalidParametersError"]_vars

\* setSceneActive without a scene, on a space that has scenes but no active
\* one, authenticated and failed with NoonInvalidParametersError.
C25_Witness ==
  /\ lastCall.op = "setSceneActive"
  /\ lastCall.arg = PyNone
  /\ heap[lastCall.obj].activeScene = PyNone
  /\ heap[lastCall.obj].scenes["SC1"] # NoObj
  /\ lastCall.calls = <<"authenticate", "authenticate.return">>
  /\ lastCall.exc = "NoonInvalidParametersError"

\* The listeners whose thread has been started and has not ended or reached
\* its close handler.
Running ==
  {i \in 1..Len(listeners) : listeners[i] \in {"started", "connecting", "open"}}

\* C26: under every interleaving of connect() calls with the listener
\* thread's open and close handling and the reconnect, at most one listener
\* is running at any time.
C26_AtMostOneListener ==
  Cardinality(Running) <= 1

\* C27: whenever a call of authenticate() returns without error, the
\* endpoint map is non-empty, also when an earlier call obtained a token and
\* failed to fetch the endpoint directory.
C27_ReturnImpliesEndpoints ==
  [][(lastCall'.op = "authenticate" /\ lastCall'.exc = "")
       => noon'.endpoints # {}]_vars

====
